---- MODULE Spec2Model ----
(***************************************************************************)
(* Port sweeps (port_scanner.py) and host sweeps (network_scanner.py) of   *)
(* the toolkit, run through concurrent.futures.ThreadPoolExecutor.         *)
(***************************************************************************)
EXTENDS Integers, Sequences, FiniteSets, TLC

(* ---------------------------------------------------------------- bounds *)

\* Ports 1..MaxLow are modelled one by one at the low end of the port space.
MaxLow == 2
\* Largest max_threads argument explored.
MaxThreads == 2

(* ------------------------------------------------------ program constants *)

MinPort == 1
MaxPort == 65535
FirstHost == 1
LastHost == 254

\* common_ports of scan_common_ports
common_ports ==
    <<21, 22, 23, 25, 53, 80, 110, 111, 135, 139, 143, 443, 993, 995,
      1723, 3306, 3389, 5900, 8080, 8443>>

None == "None"
Unknown == "Unknown"
\* an exception leaving a call
Exc == "Exception"

\* how a sweep ended: the exception it raised, or the list it returned
Returns(list) == [exc |-> None, value |-> list]
Raises(e) == [exc |-> e, value |-> <<>>]

(* ---------------------------------------------------------------- helpers *)

Range(s) == {s[i] : i \in DOMAIN s}

SeqMin(s) == CHOOSE x \in Range(s) : \A y \in Range(s) : x <= y
SeqMax(s) == CHOOSE x \in Range(s) : \A y \in Range(s) : x >= y

SetMin(S) == CHOOSE x \in S : \A y \in S : x <= y

\* the members of S as an ascending list
RECURSIVE Ascending(_)
Ascending(S) ==
    IF S = {} THEN <<>>
    ELSE LET m == SetMin(S) IN <<m>> \o Ascending(S \ {m})

\* insertion of x into the ascending list s (stable: after equal elements)
RECURSIVE Insert(_, _)
Insert(x, s) ==
    IF s = <<>> THEN <<x>>
    ELSE IF x < Head(s) THEN <<x>> \o s
    ELSE <<Head(s)>> \o Insert(x, Tail(s))

\* open_ports returned in completion order
Unsorted(s) == s

\* list.sort() on a list of integers
RECURSIVE SortInts(_)
SortInts(s) ==
    IF s = <<>> THEN <<>>
    ELSE Insert(s[Len(s)], SortInts(SubSeq(s, 1, Len(s) - 1)))

StrictlyAscending(s) == \A i \in 1..(Len(s) - 1) : s[i] < s[i + 1]

(* ------------------------------------------------- addresses as strings *)

\* A string is the sequence of its characters.
Digits == <<"0", "1", "2", "3", "4", "5", "6", "7", "8", "9">>
Dot == "."

DigitValue(c) == (CHOOSE i \in DOMAIN Digits : Digits[i] = c) - 1

\* str(n) / f"{n}" for n >= 0
RECURSIVE str(_)
str(n) ==
    IF n < 10 THEN <<Digits[n + 1]>>
    ELSE str(n \div 10) \o <<Digits[(n % 10) + 1]>>

\* int(s) for a string of digits (v is the value of the argument, taken once)
RECURSIVE int(_)
int(s) ==
    CHOOSE n \in {IF v = <<>> THEN 0
                  ELSE 10 * int(SubSeq(v, 1, Len(v) - 1)) + DigitValue(v[Len(v)])
                  : v \in {s}} : TRUE

\* s.split('.')
RECURSIVE split(_)
split(s) ==
    CHOOSE parts \in
        {IF \A i \in DOMAIN v : v[i] # Dot THEN <<v>>
         ELSE CHOOSE r \in {<<SubSeq(v, 1, i - 1)>> \o split(SubSeq(v, i + 1, Len(v)))
                            : i \in {SetMin({j \in DOMAIN v : v[j] = Dot})}} : TRUE
         : v \in {s}} : TRUE

\* s.rsplit('.', 1)[0]
rsplit_head(s) ==
    IF \A i \in DOMAIN s : s[i] # Dot THEN s
    ELSE LET i == CHOOSE j \in DOMAIN s :
                      s[j] = Dot /\ \A k \in DOMAIN s : s[k] = Dot => k <= j
         IN SubSeq(s, 1, i - 1)

\* the dotted string of four octets
dotted(o) == str(o[1]) \o <<Dot>> \o str(o[2]) \o <<Dot>> \o str(o[3])
             \o <<Dot>> \o str(o[4])

\* socket.inet_aton(ip): the four bytes of a dotted address
inet_aton(ip) ==
    CHOOSE b \in {<<int(parts[1]), int(parts[2]), int(parts[3]), int(parts[4])>>
                  : parts \in {split(ip)}} : TRUE

\* a < b for two byte strings of length 4
BytesLess(a, b) ==
    \E i \in 1..4 : a[i] < b[i] /\ \A j \in 1..(i - 1) : a[j] = b[j]

\* the 32-bit value of a dotted address, as its two 16-bit halves (the
\* value itself, Hi * 65536 + Lo, exceeds the model checker's integers)
Hi(ip) == LET b == inet_aton(ip) IN b[1] * 256 + b[2]
Lo(ip) == LET b == inet_aton(ip) IN b[3] * 256 + b[4]

\* the 32-bit value of a is less than that of b
NumericLess(a, b) == Hi(a) < Hi(b) \/ (Hi(a) = Hi(b) /\ Lo(a) < Lo(b))

(* ------------------------------------------------------------ environment *)

\* The ports whose probes are modelled one by one.  Every other port of the
\* port space is closed; its probe task returns (port, False) and adds
\* nothing to open_ports, and it is not tracked.
ProbedPorts == (MinPort..MaxLow) \cup {22, 80, 8000} \cup {MaxPort}

\* The service ports modelled one by one: two of the common set and one
\* that lies between them and is not of the set.
ServicePorts == {22, 80, 8000}

\* The ports of the target that lie in [low, high].
Targeted(low, high) == {p \in ProbedPorts : low <= p /\ p <= high}

\* A port sweep is explored when it has no more modelled candidates than the
\* sweep of the common ports.
Explored(low, high) == Cardinality(Targeted(low, high)) <= Cardinality(ServicePorts)

\* Arguments tried for start_port / end_port.
PortInputs == (0..MaxLow) \cup {20, 85, MaxPort, MaxPort + 1}

\* The host octets whose probes are modelled one by one.  Every other
\* candidate of the /24 is silent; its task returns None and is not tracked.
ProbedHosts == {h \in FirstHost..LastHost : h \in {2, 10, 254}}

\* Values of NetworkScanner.local_ip ("192.168.1.1" is _get_local_ip's fallback).
LocalIps == {dotted(<<192, 168, 1, 1>>), dotted(<<10, 0, 0, 57>>)}

MacOf == "AA:BB:CC:DD:EE:FF"
NameOf == "host.lan"

VARIABLES
    openSet,          \* target: the ports that accept connections during the sweep
    alive,            \* subnet: the addresses that answer during the sweep
    pc,               \* position of the calling thread
    kind,             \* the scanner object at work: a PortScanner ("port") or
                      \* a NetworkScanner ("host")
    start_port, end_port,                \* arguments of the last port sweep
    max_threads,      \* max_workers of the sweep's executor
    todo,             \* candidates the calling thread has not handled yet
    queue,            \* executor work queue (FIFO)
    running,          \* tasks a worker thread is executing
    finished,         \* futures done and not yet yielded by as_completed
    yielded,          \* tasks whose futures as_completed has yielded
    open_ports,       \* PortScanner.open_ports
    scan_results,     \* PortScanner.scan_results
    local_ip,         \* NetworkScanner.local_ip
    devices,          \* NetworkScanner.devices
    ret,              \* value returned (or exception raised) by the last sweep
    faulted,          \* some connection attempt of this sweep failed transiently
    lookups,          \* for each host whose ping was answered in this sweep,
                      \* whether its two lookups succeeded
    dispatched,       \* tasks submitted by the running sweep, in order
    cancelled,        \* KeyboardInterrupt was raised in the calling thread
    lateStarts,       \* tasks a worker started after the interrupt
    result,           \* the CompletedProcess of the nmap run
    current_ip,       \* current_ip of the nmap parse loop, <<>> for None
    previous,         \* <<list>>: the list the sweep before the running one
                      \* returned, when that sweep covered the same range of
                      \* the same port state and no attempt of it failed
                      \* transiently; <<>> otherwise
    queried,          \* argument of the last get_service_name call
    service,          \* value the last get_service_name call returned
    nmap_installed,   \* an nmap executable is on the PATH during the sweep
    stale,            \* a device the sweep before left in NetworkScanner.devices
                      \* is silent during the running one
    scan_start_time,  \* PortScanner.scan_start_time, <<>> for None
    scan_end_time,    \* PortScanner.scan_end_time, <<>> for None
    toolkit_devices,  \* NetworkSecurityToolkit.devices
    selected_target,  \* NetworkSecurityToolkit.selected_target, <<>> for None
    port_scanner,     \* NetworkSecurityToolkit.port_scanner, <<>> for None
    searched,         \* <<arguments>> of the last search_exploits call
    option,           \* the menu operation chosen last, and whether it went
                      \* past its guard
    found,            \* some network scan of the session returned devices
    script_path,      \* argument of run_exploit_script
    existing,         \* the paths that exist in the file system
    answer,           \* what the operator types at the confirmation prompt
    is_connected,     \* MetasploitInterface.is_connected
    msf_path,         \* MetasploitInterface.msf_path
    platform_system,  \* platform.system()
    launched,         \* subprocess.run has started the framework process
    success           \* <<value>> run_exploit_script returned, <<>> before

envVars == <<openSet, alive>>
argVars == <<kind, start_port, end_port, max_threads>>
poolVars == <<queue, running, finished, yielded>>
portObj == <<open_ports, scan_results>>
netObj == <<local_ip, devices>>
histVars == <<faulted, lookups, dispatched, cancelled, lateStarts>>
nmapVars == <<result, current_ip>>
svcVars == <<queried, service>>
timeVars == <<scan_start_time, scan_end_time>>
callVars == <<nmap_installed, stale>>
menuVars == <<toolkit_devices, selected_target, port_scanner, searched, option,
              found>>
msfVars == <<script_path, existing, answer, is_connected, msf_path,
             platform_system, launched, success>>
appVars == <<menuVars, msfVars>>
sweepVars == <<envVars, pc, argVars, todo, poolVars, portObj, netObj, ret,
               histVars, nmapVars, previous, svcVars, callVars, timeVars>>

vars == <<envVars, pc, argVars, todo, poolVars, portObj, netObj, ret, histVars,
          nmapVars, previous, svcVars, callVars, timeVars, appVars>>

(* ------------------------------------------------------------- port probe *)

\* what one connection attempt to the port can do: connect_ex returns 0
\* ("ok"), returns an errno ("refused": refusal or timeout), or a call of the
\* attempt raises ("raise": socket creation, settimeout, connect_ex, close)
Attempts(port) ==
    IF port \in openSet THEN {"ok", "refused", "raise"} ELSE {"refused", "raise"}

\* the answer of a probe layer that never fails transiently
Steady(port) == IF port \in openSet THEN "ok" ELSE "refused"

\* a future's outcome: the tuple (port, is_open) the task returned, with the
\* number of connection attempts the task made
Value(port, is_open, attempts) ==
    [exc |-> FALSE, task |-> port, is_open |-> is_open, attempts |-> attempts]
\* a future's outcome: the exception the task let escape
Raised(task) ==
    [exc |-> TRUE, task |-> task, is_open |-> FALSE, attempts |-> 0]

\* scan_port whose second method has no exception handler
scan_port_unguarded(port, r1, r2) ==
    IF r1 = "ok" THEN Value(port, TRUE, 1)
    ELSE IF r2 = "raise" THEN Raised(port)
         ELSE Value(port, r2 = "ok", 2)

\* scan_port that stops after method 1
scan_port_single(port, r1, r2) == Value(port, r1 = "ok", 1)

\* PortScanner.scan_port with r1, r2 the outcomes of its two attempts
scan_port(port, r1, r2) ==
    IF r1 = "ok" THEN Value(port, TRUE, 1)
    ELSE \* result # 0, or the exception was swallowed: method 2
         IF r2 = "raise" THEN Value(port, FALSE, 2)
         ELSE Value(port, r2 = "ok", 2)

\* the future of a port task, with what the network did during the task:
\* whether a connection attempt returned success
PortFuture(res, r1, r2) ==
    [exc |-> res.exc, task |-> res.task, is_open |-> res.is_open,
     attempts |-> res.attempts, connected |-> (r1 = "ok" \/ r2 = "ok")]

(* ------------------------------------------------------------- host probe *)

\* what the ping subprocess can do: exit 0 ("reply"), exit non-zero
\* ("silent"), or subprocess.run raises ("raise": timeout, OS error)
Pings(host) ==
    IF host \in alive THEN {"reply", "silent", "raise"} ELSE {"silent", "raise"}
\* what the ARP / neighbour lookup can do
MacLookups == {"found", "absent", "raise"}
\* what socket.gethostbyaddr can do
NameLookups == {"found", "raise"}

\* _ping_host without its exception handler
ping_host_unguarded(r) ==
    IF r = "raise" THEN Exc ELSE IF r = "reply" THEN "True" ELSE "False"

\* the lookups run only after a ping that was answered
LookupsAfter(ping_r, outcomes) ==
    IF ping_r = "reply" THEN outcomes ELSE {"raise"}

\* NetworkScanner._ping_host: the bool it returns; its handler turns every
\* exception into False (Exc stands for an exception that escapes)
ping_host(r) == IF r = "raise" THEN "False" ELSE IF r = "reply" THEN "True" ELSE "False"

\* NetworkScanner._get_mac_address: the address, or None when it is absent
\* or a lookup raised
get_mac_address(r) == IF r = "found" THEN MacOf ELSE None

\* NetworkScanner._get_hostname: the name, or "Unknown" when the lookup raised
get_hostname(r) == IF r = "found" THEN NameOf ELSE Unknown

Device(ip, mac, hostname) ==
    [ip |-> ip, mac |-> mac, hostname |-> hostname, status |-> "alive"]

\* a future's outcome: the Optional[Dict] the task returned, <<>> for None
\* and <<d>> for the dict d
HostValue(ip, device) == [exc |-> FALSE, task |-> ip, device |-> device]
\* a future's outcome: the exception the task let escape
HostRaised(ip) == [exc |-> TRUE, task |-> ip, device |-> <<>>]

\* NetworkScanner._scan_single_ip
scan_single_ip(ip, ping_r, mac_r, name_r) ==
    LET up == ping_host(ping_r)
        mac == get_mac_address(mac_r)
        hostname == get_hostname(name_r)
    IN IF up = Exc THEN HostRaised(ip)
       ELSE IF up = "True"
       THEN IF mac = Exc \/ hostname = Exc THEN HostRaised(ip)
            ELSE HostValue(ip, <<Device(ip, IF mac = None THEN Unknown ELSE mac,
                                        hostname)>>)
       ELSE HostValue(ip, <<>>)

\* the key of devices.sort: socket.inet_aton(x['ip'])
SortKey(device) == inet_aton(device.ip)

RECURSIVE InsertDevice(_, _)
InsertDevice(x, s) ==
    CHOOSE r \in
        {IF t = <<>> THEN <<d>>
         ELSE IF \E a \in {SortKey(d)}, b \in {SortKey(Head(t))} : BytesLess(a, b)
              THEN <<d>> \o t
         ELSE <<Head(t)>> \o InsertDevice(d, Tail(t))
         : d \in {x}, t \in {s}} : TRUE

\* the character code of a character of an address
Ord(c) == IF c = Dot THEN 46 ELSE 48 + DigitValue(c)

\* a < b for two strings
TextLess(a, b) ==
    \/ \E i \in 1..Len(a) :
         /\ i <= Len(b)
         /\ Ord(a[i]) < Ord(b[i])
         /\ \A j \in 1..(i - 1) : a[j] = b[j]
    \/ Len(a) < Len(b) /\ \A j \in 1..Len(a) : a[j] = b[j]

RECURSIVE InsertByText(_, _)
InsertByText(x, s) ==
    IF s = <<>> THEN <<x>>
    ELSE IF TextLess(x.ip, Head(s).ip) THEN <<x>> \o s
    ELSE <<Head(s)>> \o InsertByText(x, Tail(s))

\* devices.sort(key=lambda x: x['ip']): the addresses compared as text
RECURSIVE SortDevicesByText(_)
SortDevicesByText(s) ==
    IF s = <<>> THEN <<>>
    ELSE InsertByText(s[Len(s)], SortDevicesByText(SubSeq(s, 1, Len(s) - 1)))

\* devices.sort(key=lambda x: socket.inet_aton(x['ip']))
RECURSIVE SortDevices(_)
SortDevices(s) ==
    IF s = <<>> THEN <<>>
    ELSE InsertDevice(s[Len(s)], SortDevices(SubSeq(s, 1, Len(s) - 1)))

\* the host octet of a candidate address
HostOf(ip) == inet_aton(ip)[4]

(* ------------------------------------------------------------- port sweep *)

\* the range check without its start_port > end_port test
\* time.time(): the reading of the clock.  The sweeps are not told apart by
\* when they ran, so the clock shows one time.
time_time == 1

valid_range_unordered(low, high) == ~(low < MinPort \/ high > MaxPort)

valid_range(low, high) == ~(low < MinPort \/ high > MaxPort \/ low > high)

\* list(range(start_port, end_port)): the last port left out
port_list_short(low, high) == Ascending({p \in ProbedPorts : low <= p /\ p < high})

\* port_list = list(range(start_port, end_port + 1))
port_list(low, high) == Ascending({p \in ProbedPorts : low <= p /\ p <= high})

\* A sweep is called on a scanner that is at rest.  A call rejected with
\* ValueError leaves the scanner as the call found it, so the calls that
\* could follow it are the calls made from the state before it; they are
\* not explored a second time.
CanCall == pc \in {"idle", "returned"}

\* scan_port_range without lines 92-93: the lists of the sweep before are kept
scan_port_range_keeping(low, high, threads) ==
    /\ CanCall /\ kind = "port"
    /\ start_port' = low
    /\ end_port' = high
    /\ IF ~valid_range(low, high)
       THEN /\ pc' = "raised"
            /\ ret' = Raises("ValueError")
            /\ dispatched' = <<>>
            /\ previous' = <<>>
            /\ UNCHANGED <<envVars, max_threads, todo, portObj, faulted, lookups>>
            /\ UNCHANGED timeVars
       ELSE /\ Explored(low, high)
            /\ pc' = "submit"
            /\ max_threads' = threads
            /\ scan_start_time' = <<time_time>>
            /\ UNCHANGED scan_end_time
            /\ UNCHANGED portObj
            /\ todo' = port_list(low, high)
            /\ ret' = Returns(<<>>)
            /\ openSet' \in SUBSET Targeted(low, high)
            /\ alive' = {}
            /\ faulted' = FALSE
            /\ lookups' = {}
            /\ dispatched' = <<>>
            /\ previous' = IF /\ pc = "returned" /\ ~faulted
                              /\ start_port = low /\ end_port = high
                              /\ openSet' = openSet
                           THEN <<ret.value>>
                           ELSE <<>>
    /\ UNCHANGED <<callVars, appVars>>
    /\ UNCHANGED <<svcVars, nmapVars>>
    /\ UNCHANGED <<kind, poolVars, netObj, cancelled, lateStarts>>

\* scan_port_range with lines 91-93 moved before the check of the bounds
scan_port_range_resetting(low, high, threads) ==
    /\ CanCall /\ kind = "port"
    /\ start_port' = low
    /\ end_port' = high
    /\ scan_start_time' = <<time_time>>
    /\ open_ports' = <<>>
    /\ scan_results' = {}
    /\ UNCHANGED scan_end_time
    /\ IF ~valid_range(low, high)
       THEN /\ pc' = "raised"
            /\ ret' = Raises("ValueError")
            /\ dispatched' = <<>>
            /\ previous' = <<>>
            /\ UNCHANGED <<envVars, max_threads, todo, faulted, lookups>>
       ELSE /\ Explored(low, high)
            /\ pc' = "submit"
            /\ max_threads' = threads
            /\ todo' = port_list(low, high)
            /\ ret' = Returns(<<>>)
            /\ openSet' \in SUBSET Targeted(low, high)
            /\ alive' = {}
            /\ faulted' = FALSE
            /\ lookups' = {}
            /\ dispatched' = <<>>
            /\ previous' = IF /\ pc = "returned" /\ ~faulted
                              /\ start_port = low /\ end_port = high
                              /\ openSet' = openSet
                           THEN <<ret.value>>
                           ELSE <<>>
    /\ UNCHANGED <<callVars, appVars>>
    /\ UNCHANGED <<svcVars, nmapVars>>
    /\ UNCHANGED <<kind, poolVars, netObj, cancelled, lateStarts>>

\* scan_port_range up to the creation of the executor
scan_port_range(low, high, threads) ==
    /\ CanCall /\ kind = "port"
    /\ start_port' = low
    /\ end_port' = high
    /\ IF ~valid_range(low, high)
       THEN /\ pc' = "raised"
            /\ ret' = Raises("ValueError")
            /\ dispatched' = <<>>
            /\ previous' = <<>>
            /\ UNCHANGED <<envVars, max_threads, todo, portObj, faulted, lookups>>
            /\ UNCHANGED timeVars
       ELSE /\ Explored(low, high)
            /\ pc' = "submit"
            /\ max_threads' = threads
            /\ scan_start_time' = <<time_time>>
            /\ UNCHANGED scan_end_time
            /\ open_ports' = <<>>
            /\ scan_results' = {}
            /\ todo' = port_list(low, high)
            /\ ret' = Returns(<<>>)
            /\ openSet' \in SUBSET Targeted(low, high)
            /\ alive' = {}
            /\ faulted' = FALSE
            /\ lookups' = {}
            /\ dispatched' = <<>>
            /\ previous' = IF /\ pc = "returned" /\ ~faulted
                              /\ start_port = low /\ end_port = high
                              /\ openSet' = openSet
                           THEN <<ret.value>>
                           ELSE <<>>
    /\ UNCHANGED <<callVars, appVars>>
    /\ UNCHANGED <<svcVars, nmapVars>>
    /\ UNCHANGED <<kind, poolVars, netObj, cancelled, lateStarts>>

CallRange ==
    \E low \in PortInputs, high \in PortInputs, threads \in 1..MaxThreads :
        scan_port_range(low, high, threads)

\* scan_common_ports
scan_common_ports(threads) ==
    scan_port_range(SeqMin(common_ports), SeqMax(common_ports), threads)

CallCommon == \E threads \in 1..MaxThreads : scan_common_ports(threads)

\* a comprehension that submits every port a second time
SubmitPortTwice ==
    /\ pc = "submit" /\ kind = "port"
    /\ todo # <<>>
    /\ queue' = queue \o <<Head(todo), Head(todo)>>
    /\ dispatched' = dispatched \o <<Head(todo), Head(todo)>>
    /\ todo' = Tail(todo)
    /\ UNCHANGED <<callVars, timeVars, appVars>>
    /\ UNCHANGED <<previous, svcVars, nmapVars>>
    /\ UNCHANGED <<envVars, pc, argVars, running, finished, yielded, portObj,
                   netObj, ret, faulted, lookups, cancelled, lateStarts>>

\* executor.submit(self.scan_port, port, timeout) for the next port
SubmitPort ==
    /\ pc = "submit" /\ kind = "port"
    /\ todo # <<>>
    /\ queue' = Append(queue, Head(todo))
    /\ dispatched' = Append(dispatched, Head(todo))
    /\ todo' = Tail(todo)
    /\ UNCHANGED <<callVars, timeVars, appVars>>
    /\ UNCHANGED <<previous, svcVars, nmapVars>>
    /\ UNCHANGED <<envVars, pc, argVars, running, finished, yielded, portObj,
                   netObj, ret, faulted, lookups, cancelled, lateStarts>>

\* the comprehension is finished: enter the as_completed loop
BeginCollect ==
    /\ pc = "submit"
    /\ todo = <<>>
    /\ pc' = "collect"
    /\ UNCHANGED <<callVars, timeVars, appVars>>
    /\ UNCHANGED <<previous, svcVars, nmapVars>>
    /\ UNCHANGED <<envVars, argVars, todo, poolVars, portObj, netObj, ret,
                   histVars>>

\* a thread per task, whatever max_threads is
AlwaysFreeWorker == TRUE

\* a pool that keeps one of its max_threads workers in reserve
HasSpareWorker == Cardinality(running) + 1 < max_threads

\* ThreadPoolExecutor(max_workers=max_threads): the pool runs at most
\* max_threads worker threads, each with one work item at a time
HasFreeWorker == Cardinality(running) < max_threads

\* a worker thread of the pool takes the next work item
WorkerStart ==
    /\ queue # <<>>
    /\ HasFreeWorker
    /\ running' = running \cup {Head(queue)}
    /\ queue' = Tail(queue)
    /\ lateStarts' = IF cancelled THEN lateStarts \cup {Head(queue)} ELSE lateStarts
    /\ UNCHANGED <<callVars, timeVars, appVars>>
    /\ UNCHANGED <<previous, svcVars, nmapVars>>
    /\ UNCHANGED <<envVars, pc, argVars, todo, finished, yielded, portObj,
                   netObj, ret, faulted, lookups, dispatched, cancelled>>

\* the worker runs scan_port to its end and sets the future's result
PortTask(p) ==
    /\ kind = "port"
    /\ p \in running
    /\ \E r1 \in Attempts(p), r2 \in Attempts(p) :
         /\ finished' = finished \cup {PortFuture(scan_port(p, r1, r2), r1, r2)}
         /\ faulted' = (faulted \/ r1 # Steady(p) \/ (r1 # "ok" /\ r2 # Steady(p)))
    /\ running' = running \ {p}
    /\ UNCHANGED <<callVars, timeVars, appVars>>
    /\ UNCHANGED <<previous, svcVars, nmapVars>>
    /\ UNCHANGED <<envVars, pc, argVars, todo, queue, yielded, portObj, netObj,
                   ret, lookups, dispatched, cancelled, lateStarts>>

\* a loop that replaces the list instead of appending to it
CollectPortOverwriting ==
    /\ pc = "collect" /\ kind = "port"
    /\ \E f \in finished :
         /\ finished' = finished \ {f}
         /\ yielded' = yielded \cup {f.task}
         /\ IF f.exc
            THEN \* future.result() re-raises the task's exception
                 /\ pc' = "unwind"
                 /\ ret' = Raises(Exc)
                 /\ UNCHANGED portObj
            ELSE /\ scan_results' = scan_results \cup {<<f.task, f.is_open>>}
                 /\ open_ports' = IF f.is_open THEN <<f.task>>
                                  ELSE open_ports
                 /\ UNCHANGED <<pc, ret>>
    /\ UNCHANGED <<callVars, timeVars, appVars>>
    /\ UNCHANGED <<previous, svcVars, nmapVars>>
    /\ UNCHANGED <<envVars, argVars, todo, queue, running, netObj, histVars>>

\* a loop that records a result only for the ports found open
CollectPortOpenOnly ==
    /\ pc = "collect" /\ kind = "port"
    /\ \E f \in finished :
         /\ finished' = finished \ {f}
         /\ yielded' = yielded \cup {f.task}
         /\ IF f.exc
            THEN /\ pc' = "unwind"
                 /\ ret' = Raises(Exc)
                 /\ UNCHANGED portObj
            ELSE /\ scan_results' = IF f.is_open
                                    THEN scan_results \cup {<<f.task, f.is_open>>}
                                    ELSE scan_results
                 /\ open_ports' = IF f.is_open THEN Append(open_ports, f.task)
                                  ELSE open_ports
                 /\ UNCHANGED <<pc, ret>>
    /\ UNCHANGED <<callVars, timeVars, appVars>>
    /\ UNCHANGED <<previous, svcVars, nmapVars>>
    /\ UNCHANGED <<envVars, argVars, todo, queue, running, netObj, histVars>>

\* one iteration of "for future in as_completed(future_to_port)"
CollectPort ==
    /\ pc = "collect" /\ kind = "port"
    /\ \E f \in finished :
         /\ finished' = finished \ {f}
         /\ yielded' = yielded \cup {f.task}
         /\ IF f.exc
            THEN \* future.result() re-raises the task's exception
                 /\ pc' = "unwind"
                 /\ ret' = Raises(Exc)
                 /\ UNCHANGED portObj
            ELSE /\ scan_results' = scan_results \cup {<<f.task, f.is_open>>}
                 /\ open_ports' = IF f.is_open THEN Append(open_ports, f.task)
                                  ELSE open_ports
                 /\ UNCHANGED <<pc, ret>>
    /\ UNCHANGED <<callVars, timeVars, appVars>>
    /\ UNCHANGED <<previous, svcVars, nmapVars>>
    /\ UNCHANGED <<envVars, argVars, todo, queue, running, netObj, histVars>>

\* PortScanner.get_open_ports
get_open_ports == open_ports

\* PortScanner.get_scan_summary (the services of the open ports left out)
get_scan_summary ==
    [open_ports |-> open_ports,
     scan_duration |-> IF scan_start_time # <<>> /\ scan_end_time # <<>>
                       THEN scan_end_time[1] - scan_start_time[1]
                       ELSE 0,
     total_ports_scanned |-> Cardinality({r[1] : r \in scan_results})]

\* a loop that stops at the first future as_completed yields
FirstYielded == yielded # {}

\* "for future in as_completed(...)" has yielded every submitted future
AllYielded == yielded = Range(dispatched)

\* as_completed is exhausted, the with block exits, the sweep returns
ReturnPort ==
    /\ pc = "collect" /\ kind = "port"
    /\ AllYielded
    /\ scan_end_time' = <<time_time>>
    /\ open_ports' = SortInts(open_ports)
    /\ ret' = Returns(open_ports')
    /\ pc' = "returned"
    /\ yielded' = {}
    /\ UNCHANGED <<callVars, scan_start_time, appVars>>
    /\ UNCHANGED <<previous, svcVars, nmapVars>>
    /\ UNCHANGED <<envVars, argVars, todo, queue, running, finished,
                   scan_results, netObj, histVars>>

\* KeyboardInterrupt in the calling thread, inside the with block
Interrupt ==
    /\ pc \in {"submit", "collect"}
    /\ cancelled' = TRUE
    /\ pc' = "unwind"
    /\ ret' = Raises("KeyboardInterrupt")
    /\ UNCHANGED <<callVars, timeVars, appVars>>
    /\ UNCHANGED <<previous, svcVars, nmapVars>>
    /\ UNCHANGED <<envVars, argVars, todo, poolVars, portObj, netObj, faulted,
                   lookups, dispatched, lateStarts>>

\* ThreadPoolExecutor.__exit__: shutdown(wait=True) joins the workers, which
\* first drain the work queue; then the exception leaves the sweep
Unwind ==
    /\ pc = "unwind"
    /\ queue = <<>> /\ running = {}
    /\ pc' = IF cancelled THEN "interrupted" ELSE "raised"
    /\ finished' = {}
    /\ yielded' = {}
    /\ UNCHANGED <<callVars, timeVars, appVars>>
    /\ UNCHANGED <<previous, svcVars, nmapVars>>
    /\ UNCHANGED <<envVars, argVars, todo, queue, running, portObj, netObj,
                   ret, histVars>>

(* ------------------------------------------------------------- host sweep *)

\* ip_list = [f"{base_ip}.{i}" for i in range(1, 255)]
ip_list(base_ip) ==
    LET hosts == Ascending(ProbedHosts)
    IN [k \in DOMAIN hosts |-> base_ip \o <<Dot>> \o str(hosts[k])]

\* NetworkScanner.scan_network up to the creation of the executor, or up to
\* the call of _scan_network_termux
scan_network(threads, is_termux) ==
    /\ CanCall /\ kind = "host"
    /\ max_threads' = threads
    /\ alive' \in SUBSET ProbedHosts
    /\ openSet' = {}
    /\ ret' = Returns(<<>>)
    /\ faulted' = FALSE
    /\ lookups' = {}
    /\ dispatched' = <<>>
    /\ stale' = \E i \in DOMAIN devices : HostOf(devices[i].ip) \notin alive'
    /\ IF is_termux
       THEN /\ pc' = "termux"
            /\ nmap_installed' \in BOOLEAN
            /\ UNCHANGED <<todo, devices>>
       ELSE /\ pc' = "submit"
            /\ nmap_installed' = FALSE
            /\ todo' = ip_list(rsplit_head(local_ip))
            /\ devices' = <<>>
    /\ UNCHANGED <<timeVars, appVars>>
    /\ UNCHANGED <<previous, svcVars, nmapVars>>
    /\ UNCHANGED <<kind, start_port, end_port, poolVars, portObj, local_ip,
                   cancelled, lateStarts>>

CallNetwork ==
    \E threads \in 1..MaxThreads, is_termux \in BOOLEAN :
        scan_network(threads, is_termux)

\* executor.submit(self._scan_single_ip, ip) for the next address
SubmitHost ==
    /\ pc = "submit" /\ kind = "host"
    /\ todo # <<>>
    /\ queue' = Append(queue, Head(todo))
    /\ dispatched' = Append(dispatched, Head(todo))
    /\ todo' = Tail(todo)
    /\ UNCHANGED <<callVars, timeVars, appVars>>
    /\ UNCHANGED <<previous, svcVars, nmapVars>>
    /\ UNCHANGED <<envVars, pc, argVars, running, finished, yielded, portObj,
                   netObj, ret, faulted, lookups, cancelled, lateStarts>>

\* lookups that are run whatever the ping said
ProbeAlways(ip, ping_r, mac_r, name_r) ==
    {[ip |-> ip, mac_ok |-> (mac_r = "found"), name_ok |-> (name_r = "found")]}

\* the entry of lookups for one run of the probe and the lookups
Probe(ip, ping_r, mac_r, name_r) ==
    IF ping_r = "reply"
    THEN {[ip |-> ip, mac_ok |-> (mac_r = "found"), name_ok |-> (name_r = "found")]}
    ELSE {}

\* the worker runs _scan_single_ip to its end and sets the future's result
HostTask(ip) ==
    /\ kind = "host"
    /\ ip \in running
    /\ \E ping_r \in Pings(HostOf(ip)) :
       \E mac_r \in LookupsAfter(ping_r, MacLookups),
          name_r \in LookupsAfter(ping_r, NameLookups) :
         /\ finished' = finished \cup {scan_single_ip(ip, ping_r, mac_r, name_r)}
         /\ lookups' = lookups \cup Probe(ip, ping_r, mac_r, name_r)
    /\ running' = running \ {ip}
    /\ UNCHANGED <<callVars, timeVars, appVars>>
    /\ UNCHANGED <<previous, svcVars, nmapVars>>
    /\ UNCHANGED <<envVars, pc, argVars, todo, queue, yielded, portObj, netObj,
                   ret, faulted, dispatched, cancelled, lateStarts>>

\* one iteration of "for future in as_completed(future_to_ip)"
CollectHost ==
    /\ pc = "collect" /\ kind = "host"
    /\ \E f \in finished :
         /\ finished' = finished \ {f}
         /\ yielded' = yielded \cup {f.task}
         /\ IF f.exc
            THEN /\ pc' = "unwind"
                 /\ ret' = Raises(Exc)
                 /\ UNCHANGED devices
            ELSE /\ devices' = IF f.device # <<>> THEN devices \o f.device
                               ELSE devices
                 /\ UNCHANGED <<pc, ret>>
    /\ UNCHANGED <<callVars, timeVars, appVars>>
    /\ UNCHANGED <<previous, svcVars, nmapVars>>
    /\ UNCHANGED <<envVars, argVars, todo, queue, running, portObj, local_ip,
                   histVars>>

\* the with block exits, the devices are sorted, the sweep returns
ReturnHost ==
    /\ pc = "collect" /\ kind = "host"
    /\ AllYielded
    /\ devices' = SortDevices(devices)
    /\ ret' = Returns(devices')
    /\ pc' = "returned"
    /\ yielded' = {}
    /\ UNCHANGED <<callVars, timeVars, appVars>>
    /\ UNCHANGED <<previous, svcVars, nmapVars>>
    /\ UNCHANGED <<envVars, argVars, todo, queue, running, finished, portObj,
                   local_ip, histVars>>

\* what shutil.which("nmap") does in network_scanner.py: the module never
\* imports shutil, so evaluating the name raises NameError
shutil_which == "NameError"

\* _scan_network_termux without line 261: the fallback appends to the
\* devices of the sweep before
scan_network_termux_keeping ==
    /\ pc = "termux"
    /\ shutil_which = "NameError"
    /\ todo' = ip_list(rsplit_head(local_ip))
    /\ pc' = "basic"
    /\ UNCHANGED <<callVars, timeVars, appVars>>
    /\ UNCHANGED <<previous, svcVars, nmapVars>>
    /\ UNCHANGED <<envVars, argVars, poolVars, portObj, netObj, ret, histVars>>

\* _scan_network_termux up to its first return: devices is reset, the nmap
\* check raises inside the try block, the handler calls _basic_ping_scan
scan_network_termux ==
    /\ pc = "termux"
    /\ shutil_which = "NameError"
    /\ devices' = <<>>
    /\ todo' = ip_list(rsplit_head(local_ip))
    /\ pc' = "basic"
    /\ UNCHANGED <<callVars, timeVars, appVars>>
    /\ UNCHANGED <<previous, svcVars, nmapVars>>
    /\ UNCHANGED <<envVars, argVars, poolVars, portObj, local_ip, ret, histVars>>

\* the loop of _basic_ping_scan with 'mac': mac in place of mac or 'Unknown'
BasicPingRawMac ==
    /\ pc = "basic"
    /\ todo # <<>>
    /\ \E ping_r \in Pings(HostOf(Head(todo))) :
       \E mac_r \in LookupsAfter(ping_r, MacLookups),
          name_r \in LookupsAfter(ping_r, NameLookups) :
         LET ip == Head(todo)
             up == ping_host(ping_r)
             mac == get_mac_address(mac_r)
             hostname == get_hostname(name_r)
         IN /\ lookups' = lookups \cup Probe(ip, ping_r, mac_r, name_r)
            /\ IF up = Exc \/ (up = "True" /\ (mac = Exc \/ hostname = Exc))
               THEN /\ pc' = "raised"
                    /\ ret' = Raises(Exc)
                    /\ UNCHANGED <<todo, devices>>
               ELSE /\ devices' =
                         IF up = "True"
                         THEN Append(devices,
                                     Device(ip, mac, hostname))
                         ELSE devices
                    /\ todo' = Tail(todo)
                    /\ UNCHANGED <<pc, ret>>
    /\ UNCHANGED <<callVars, timeVars, appVars>>
    /\ UNCHANGED <<previous, svcVars, nmapVars>>
    /\ UNCHANGED <<envVars, argVars, poolVars, portObj, local_ip, faulted,
                   dispatched, cancelled, lateStarts>>

\* one iteration of the loop of _basic_ping_scan
BasicPing ==
    /\ pc = "basic"
    /\ todo # <<>>
    /\ \E ping_r \in Pings(HostOf(Head(todo))) :
       \E mac_r \in LookupsAfter(ping_r, MacLookups),
          name_r \in LookupsAfter(ping_r, NameLookups) :
         LET ip == Head(todo)
             up == ping_host(ping_r)
             mac == get_mac_address(mac_r)
             hostname == get_hostname(name_r)
         IN /\ lookups' = lookups \cup Probe(ip, ping_r, mac_r, name_r)
            /\ IF up = Exc \/ (up = "True" /\ (mac = Exc \/ hostname = Exc))
               THEN /\ pc' = "raised"
                    /\ ret' = Raises(Exc)
                    /\ UNCHANGED <<todo, devices>>
               ELSE /\ devices' =
                         IF up = "True"
                         THEN Append(devices,
                                     Device(ip, IF mac = None THEN Unknown ELSE mac,
                                            hostname))
                         ELSE devices
                    /\ todo' = Tail(todo)
                    /\ UNCHANGED <<pc, ret>>
    /\ UNCHANGED <<callVars, timeVars, appVars>>
    /\ UNCHANGED <<previous, svcVars, nmapVars>>
    /\ UNCHANGED <<envVars, argVars, poolVars, portObj, local_ip, faulted,
                   dispatched, cancelled, lateStarts>>

\* the end of _basic_ping_scan
BasicReturn ==
    /\ pc = "basic"
    /\ todo = <<>>
    /\ devices' = SortDevices(devices)
    /\ ret' = Returns(devices')
    /\ pc' = "returned"
    /\ UNCHANGED <<callVars, timeVars, appVars>>
    /\ UNCHANGED <<previous, svcVars, nmapVars>>
    /\ UNCHANGED <<envVars, argVars, todo, poolVars, portObj, local_ip,
                   histVars>>

(* ---------------------------------------------------- nmap output parse *)

\* what `nmap -sn` can say about one host that is up: a "MAC Address:" line
\* follows the report only for a host on the same link probed by a privileged
\* nmap (never for the scanning host itself), and the report line carries the
\* reverse-DNS name before the address when the host has one
NmapHosts == [host : ProbedHosts, has_mac : BOOLEAN, named : BOOLEAN]

\* one line of nmap's output: what it is, and the host it is about
Line(text, ip) == [text |-> text, ip |-> ip]

\* the lines nmap prints for one host
HostLines(base_ip, h) ==
    LET ip == base_ip \o <<Dot>> \o str(h.host)
    IN <<Line(IF h.named THEN "Nmap scan report for NAME (IP)"
              ELSE "Nmap scan report for IP", ip),
         Line("Host is up", ip)>>
       \o (IF h.has_mac THEN <<Line("MAC Address: MAC", ip)>> ELSE <<>>)

\* result.stdout.strip().split('\n') for a run that lists the hosts of
\* listed, in ascending order of address as nmap prints them
RECURSIVE ReportsFrom(_, _, _)
ReportsFrom(base_ip, listed, hosts) ==
    IF hosts = <<>> THEN <<>>
    ELSE (IF \E h \in listed : h.host = Head(hosts)
          THEN HostLines(base_ip, CHOOSE h \in listed : h.host = Head(hosts))
          ELSE <<>>)
         \o ReportsFrom(base_ip, listed, Tail(hosts))

stdout_lines(base_ip, listed) ==
    <<Line("Starting Nmap", <<>>)>>
    \o ReportsFrom(base_ip, listed, Ascending(ProbedHosts))
    \o <<Line("Nmap done", <<>>)>>

\* the runs of nmap: at most one entry per host
NmapRuns ==
    {listed \in SUBSET NmapHosts :
        \A g \in listed, h \in listed : g.host = h.host => g = h}

\* the lines of an output that reports the entries of a sequence one after
\* the other, whatever their addresses
RECURSIVE ReportsOf(_, _)
ReportsOf(base_ip, entries) ==
    IF entries = <<>> THEN <<>>
    ELSE HostLines(base_ip, Head(entries)) \o ReportsOf(base_ip, Tail(entries))

\* outputs of two entries, among them those that name one address twice
RepeatedRuns == {<<g, h>> : g \in NmapHosts, h \in NmapHosts}

\* re.search(r'Nmap scan report for ([0-9]+\.[0-9]+\.[0-9]+\.[0-9]+)', line):
\* the address has to follow "for " directly
ip_match(line) == line.text = "Nmap scan report for IP"

\* 'MAC Address:' in line, and re.search(r'MAC Address: ([0-9A-F:]+)', line)
mac_match(line) == line.text = "MAC Address: MAC"

\* one iteration of "for line in lines" of _scan_network_termux
NmapLine ==
    /\ pc = "parse"
    /\ todo # <<>>
    /\ LET line == Head(todo)
       IN IF ip_match(line)
          THEN /\ current_ip' = <<line.ip>>
               /\ UNCHANGED devices
          ELSE IF current_ip # <<>> /\ mac_match(line)
          THEN \E name_r \in NameLookups :
                 /\ devices' = Append(devices,
                                      Device(current_ip[1], MacOf,
                                             get_hostname(name_r)))
                 /\ current_ip' = <<>>
          ELSE UNCHANGED <<devices, current_ip>>
    /\ todo' = Tail(todo)
    /\ UNCHANGED <<callVars, timeVars, appVars>>
    /\ UNCHANGED <<previous, svcVars>>
    /\ UNCHANGED <<envVars, pc, argVars, poolVars, portObj, local_ip, ret,
                   histVars, result>>

\* the end of the nmap branch: sort and return
NmapReturn ==
    /\ pc = "parse"
    /\ todo = <<>>
    /\ devices' = SortDevices(devices)
    /\ ret' = Returns(devices')
    /\ pc' = "returned"
    /\ UNCHANGED <<callVars, timeVars, appVars>>
    /\ UNCHANGED <<previous, svcVars>>
    /\ UNCHANGED <<envVars, argVars, todo, poolVars, portObj, local_ip,
                   histVars, nmapVars>>

(* ------------------------------------------------------ dispatch failure *)

\* executor.submit raises (RuntimeError: can't start new thread) for the next
\* candidate of a port or host sweep.  The comprehension has no handler, so
\* the exception leaves the with block; the candidate's task is not run.
SubmitFails ==
    /\ pc = "submit"
    /\ todo # <<>>
    /\ pc' = "unwind"
    /\ ret' = Raises("RuntimeError")
    /\ UNCHANGED <<callVars, timeVars, appVars>>
    /\ UNCHANGED <<previous, svcVars, nmapVars>>
    /\ UNCHANGED <<envVars, argVars, todo, poolVars, portObj, netObj, histVars>>

(* ------------------------------------------------- candidate addresses *)

\* the local addresses the candidate lists are computed for
Addresses ==
    {dotted(<<a, b, c, d>>) :
        a \in {10, 192}, b \in {0, 168}, c \in {0, 1, 255}, d \in {1, 57, 200, 254}}

\* list(range(a, b))
range(a, b) == [k \in 1..(b - a) |-> a + k - 1]

\* the comprehension over a range that stops one host early
candidates_short(base_ip) ==
    LET hosts == range(FirstHost, LastHost)
    IN [k \in DOMAIN hosts |-> base_ip \o <<Dot>> \o str(hosts[k])]

\* scan_network: [f"{base_ip}.{i}" for i in range(1, 255)]
candidates(base_ip) ==
    LET hosts == range(FirstHost, LastHost + 1)
    IN [k \in DOMAIN hosts |-> base_ip \o <<Dot>> \o str(hosts[k])]

\* _basic_ping_scan: [f"{base_ip}.{i}" for i in range(1, 255)]
basic_candidates(base_ip) ==
    LET hosts == range(FirstHost, LastHost + 1)
    IN [k \in DOMAIN hosts |-> base_ip \o <<Dot>> \o str(hosts[k])]

\* lines 237-238 of scan_network: the whole candidate list
Enumerate ==
    /\ pc = "idle"
    /\ todo' = candidates(rsplit_head(local_ip))
    /\ pc' = "enumerated"
    /\ UNCHANGED <<callVars, timeVars, appVars>>
    /\ UNCHANGED <<previous, svcVars, nmapVars>>
    /\ UNCHANGED <<envVars, argVars, poolVars, portObj, netObj, ret, histVars>>

\* lines 331-332 of _basic_ping_scan: the whole candidate list
EnumerateBasic ==
    /\ pc = "idle"
    /\ todo' = basic_candidates(rsplit_head(local_ip))
    /\ pc' = "basic_enumerated"
    /\ UNCHANGED <<callVars, timeVars, appVars>>
    /\ UNCHANGED <<previous, svcVars, nmapVars>>
    /\ UNCHANGED <<envVars, argVars, poolVars, portObj, netObj, ret, histVars>>

(* ----------------------------------------------------------- service names *)

\* service_map of get_service_name
service_map ==
    (21 :> "FTP") @@ (22 :> "SSH") @@ (23 :> "Telnet") @@ (25 :> "SMTP")
    @@ (53 :> "DNS") @@ (80 :> "HTTP") @@ (110 :> "POP3")
    @@ (111 :> "RPCBind") @@ (135 :> "MS RPC") @@ (139 :> "NetBIOS")
    @@ (143 :> "IMAP") @@ (443 :> "HTTPS") @@ (993 :> "IMAPS")
    @@ (995 :> "POP3S") @@ (1723 :> "PPTP") @@ (3306 :> "MySQL")
    @@ (3389 :> "RDP") @@ (5900 :> "VNC") @@ (8080 :> "HTTP-Alt")
    @@ (8443 :> "HTTPS-Alt")

\* the ports get_service_name is asked about
ServiceInputs == (0..100) \cup Range(common_ports) \cup {8000, MaxPort}

\* get_service_name over a table that lacks the entry of port 111
get_service_name_partial(p) ==
    IF p \in DOMAIN service_map \ {111} THEN service_map[p] ELSE Unknown

\* PortScanner.get_service_name: service_map.get(port, "Unknown")
get_service_name(p) ==
    IF p \in DOMAIN service_map THEN service_map[p] ELSE Unknown

\* a call of get_service_name
GetServiceName ==
    /\ pc \in {"idle", "named"}
    /\ \E p \in ServiceInputs :
         /\ queried' = p
         /\ service' = get_service_name(p)
    /\ pc' = "named"
    /\ UNCHANGED <<callVars, timeVars, appVars>>
    /\ UNCHANGED <<previous, nmapVars>>
    /\ UNCHANGED <<envVars, argVars, todo, poolVars, portObj, netObj, ret,
                   histVars>>

(* ---------------------------------------------------------- specification *)

(* --------------------------------------------------------------- the menu *)

\* The devices of the menu are told apart by their addresses: a device is
\* the host octet of its address.  The hosts a network scan can find:
MenuHosts == {h \in ProbedHosts : h <= 10}

\* The ports scan_common_ports can find open on a target.
MenuPorts == {p \in ServicePorts : p \in Range(common_ports)}

\* what self.scanner.scan_network() can return
ScanLists == {Ascending(S) : S \in SUBSET MenuHosts}

\* PortScanner(target_ip) after its scan_common_ports() recorded the ports
\* of open
PortScanner(target_ip, open) ==
    [target_ip |-> target_ip, open_ports |-> Ascending(open)]

\* what TargetSelector.select_target_interactive can return: None, or a
\* device of the list (chosen by its number or by its address)
select_target_interactive(devs) ==
    {<<>>} \cup {<<devs[i]>> : i \in DOMAIN devs}

\* option 1, NetworkSecurityToolkit.scan_network: the list is replaced by the
\* one the scan returns, or kept when the scan raises
MenuScanNetwork ==
    /\ pc = "menu"
    /\ \/ \E scanned \in ScanLists :
            /\ toolkit_devices' = scanned
            /\ found' = (found \/ scanned # <<>>)
       \/ UNCHANGED <<toolkit_devices, found>>
    /\ option' = [name |-> "scan_network", passed |-> TRUE]
    /\ UNCHANGED <<selected_target, port_scanner, searched>>
    /\ UNCHANGED <<sweepVars, msfVars>>

\* option 2, NetworkSecurityToolkit.select_target
MenuSelectTarget ==
    /\ pc = "menu"
    /\ IF toolkit_devices = <<>>
       THEN /\ option' = [name |-> "select_target", passed |-> FALSE]
            /\ UNCHANGED selected_target
       ELSE /\ option' = [name |-> "select_target", passed |-> TRUE]
            /\ \/ selected_target' \in select_target_interactive(toolkit_devices)
               \/ UNCHANGED selected_target
    /\ UNCHANGED <<toolkit_devices, port_scanner, searched, found>>
    /\ UNCHANGED <<sweepVars, msfVars>>

\* scan_ports without its guard (lines 510-513): with no target the
\* subscript of None raises TypeError, which the handler prints
MenuScanPortsUnguarded ==
    /\ pc = "menu"
    /\ option' = [name |-> "scan_ports", passed |-> TRUE]
    /\ IF selected_target = <<>>
       THEN UNCHANGED port_scanner
       ELSE \E open \in SUBSET MenuPorts :
              port_scanner' = <<PortScanner(selected_target[1], open)>>
    /\ UNCHANGED <<toolkit_devices, selected_target, searched, found>>
    /\ UNCHANGED <<sweepVars, msfVars>>

\* option 3, NetworkSecurityToolkit.scan_ports: a new PortScanner for the
\* selected target replaces the one before
MenuScanPorts ==
    /\ pc = "menu"
    /\ IF selected_target = <<>>
       THEN /\ option' = [name |-> "scan_ports", passed |-> FALSE]
            /\ UNCHANGED port_scanner
       ELSE /\ option' = [name |-> "scan_ports", passed |-> TRUE]
            /\ \E open \in SUBSET MenuPorts :
                 port_scanner' = <<PortScanner(selected_target[1], open)>>
    /\ UNCHANGED <<toolkit_devices, selected_target, searched, found>>
    /\ UNCHANGED <<sweepVars, msfVars>>

\* option 4, NetworkSecurityToolkit.run_exploits, up to search_exploits: the
\* target is scanned only when there is no PortScanner yet
MenuRunExploits ==
    /\ pc = "menu"
    /\ IF selected_target = <<>>
       THEN /\ option' = [name |-> "run_exploits", passed |-> FALSE]
            /\ UNCHANGED <<port_scanner, searched>>
       ELSE /\ option' = [name |-> "run_exploits", passed |-> TRUE]
            /\ \E check_metasploit_installed \in BOOLEAN :
                 IF ~check_metasploit_installed
                 THEN UNCHANGED <<port_scanner, searched>>
                 ELSE /\ IF port_scanner = <<>>
                         THEN \E open \in SUBSET MenuPorts :
                                port_scanner' =
                                    <<PortScanner(selected_target[1], open)>>
                         ELSE UNCHANGED port_scanner
                      /\ searched' =
                           <<[target_ip |-> selected_target[1],
                              open_ports |-> port_scanner'[1].open_ports,
                              scanned_ip |-> port_scanner'[1].target_ip]>>
    /\ UNCHANGED <<toolkit_devices, selected_target, found>>
    /\ UNCHANGED <<sweepVars, msfVars>>

\* option 5, NetworkSecurityToolkit.run_single_exploit, up to its guard
MenuRunSingleExploit ==
    /\ pc = "menu"
    /\ option' = [name |-> "run_single_exploit",
                  passed |-> (selected_target # <<>>)]
    /\ UNCHANGED <<toolkit_devices, selected_target, port_scanner, searched,
                   found>>
    /\ UNCHANGED <<sweepVars, msfVars>>

\* option 7, NetworkSecurityToolkit.rescan_network: a list of one device
\* selects that device
MenuRescanNetwork ==
    /\ pc = "menu"
    /\ \/ \E scanned \in ScanLists :
            /\ toolkit_devices' = scanned
            /\ found' = (found \/ scanned # <<>>)
            /\ selected_target' = IF Len(scanned) = 1 THEN <<scanned[1]>>
                                  ELSE selected_target
       \/ UNCHANGED <<toolkit_devices, found, selected_target>>
    /\ option' = [name |-> "rescan_network", passed |-> TRUE]
    /\ UNCHANGED <<port_scanner, searched>>
    /\ UNCHANGED <<sweepVars, msfVars>>

(* ---------------------------------------------------- run_exploit_script *)

\* A path is the sequence of its components.
\* os.path.normpath: "." components are dropped and "name/.." is collapsed
RECURSIVE normpath(_)
normpath(path) ==
    IF path = <<>> THEN <<>>
    ELSE IF Head(path) = "." THEN normpath(Tail(path))
    ELSE IF Len(path) >= 2 /\ Head(path) # ".." /\ path[2] = ".."
         THEN normpath(Tail(Tail(path)))
    ELSE <<Head(path)>> \o normpath(Tail(path))

\* the script paths run_exploit_script is called with; "link" is a symbolic
\* link to a directory elsewhere, so "link/.." is not the starting directory
ScriptPaths ==
    {<<"exploit", "a.rc">>, <<".", "exploit", "a.rc">>,
     <<"link", "..", "exploit", "a.rc">>}

\* the values of MetasploitInterface.msf_path: the empty string, the default
\* command name, a path found by check_metasploit_installed
MsfPaths == {<<>>, <<"msfconsole">>, <<"opt", "msf", "msfconsole">>}

\* the paths that may exist
Files == ScriptPaths \cup (MsfPaths \ {<<>>})

\* what the operator can type at the prompt, as sequences of characters
Answers ==
    {<<"y", "e", "s">>, <<"Y", "E", "S">>, <<"Y", "e", "s">>,
     <<" ", "y", "e", "s", " ">>, <<"y">>, <<"n", "o">>, <<>>,
     <<"y", "e", "s", "s">>, <<"y", " ", "e", "s">>}

Uppercase == <<"Y", "E", "S", "N", "O">>
Lowercase == <<"y", "e", "s", "n", "o">>

\* str.lower()
lower(s) ==
    [i \in DOMAIN s |->
        IF s[i] \in Range(Uppercase)
        THEN Lowercase[CHOOSE k \in DOMAIN Uppercase : Uppercase[k] = s[i]]
        ELSE s[i]]

\* str.strip(): the blanks at both ends are removed
RECURSIVE strip(_)
strip(s) ==
    IF s = <<>> THEN <<>>
    ELSE IF Head(s) = " " THEN strip(Tail(s))
    ELSE IF s[Len(s)] = " " THEN strip(SubSeq(s, 1, Len(s) - 1))
    ELSE s

\* confirmation = input(...).strip().lower()
confirmation(typed) == lower(strip(typed))

\* a prompt that also takes the short answer
proceeds_on_y(typed) == confirmation(typed) \in {<<"y">>, <<"y", "e", "s">>}

\* the negation of "if confirmation != 'yes'"
proceeds(typed) == confirmation(typed) = <<"y", "e", "s">>

\* what subprocess.run(command_string, timeout=300, shell=use_shell) does:
\* with shell=True (Windows only) the shell starts the framework, which
\* exits with 0, exits with another code, or is killed at the timeout;
\* with shell=False the whole string is taken as the name of the program,
\* no such file exists and FileNotFoundError is raised
RunOutcomes(system) ==
    IF system = "Windows" THEN {"zero", "nonzero", "TimeoutExpired"}
    ELSE {"FileNotFoundError"}

\* MetasploitInterface.run_exploit_script
run_exploit_script ==
    /\ pc = "prompt"
    /\ pc' = "done"
    /\ LET normalized_script_path == normpath(script_path)
           script_found ==
               \/ normalized_script_path \in existing
               \/ (script_path # normalized_script_path /\ script_path \in existing)
       IN IF ~script_found
          THEN launched' = FALSE /\ success' = <<FALSE>>
          ELSE IF ~proceeds(answer)
          THEN launched' = FALSE /\ success' = <<FALSE>>
          ELSE IF ~is_connected \/ msf_path = <<>>
          THEN launched' = FALSE /\ success' = <<FALSE>>
          ELSE IF msf_path \notin existing
          THEN launched' = FALSE /\ success' = <<FALSE>>
          ELSE \E outcome \in RunOutcomes(platform_system) :
                 /\ launched' = (outcome # "FileNotFoundError")
                 /\ success' = <<outcome = "zero">>
    /\ UNCHANGED <<script_path, existing, answer, is_connected, msf_path,
                   platform_system>>
    /\ UNCHANGED <<envVars, argVars, todo, poolVars, portObj, netObj, ret,
                   histVars, nmapVars, previous, svcVars, callVars, timeVars,
                   menuVars>>

\* NetworkSecurityToolkit.__init__
MenuAtRest ==
    /\ toolkit_devices = <<>>
    /\ selected_target = <<>>
    /\ port_scanner = <<>>
    /\ searched = <<>>
    /\ option = [name |-> "none", passed |-> FALSE]
    /\ found = FALSE

\* no call of run_exploit_script is under way
MsfAtRest ==
    /\ script_path = <<>>
    /\ existing = {}
    /\ answer = <<>>
    /\ is_connected = FALSE
    /\ msf_path = <<>>
    /\ platform_system = "Linux"
    /\ launched = FALSE
    /\ success = <<>>

Init ==
    /\ openSet = {} /\ alive = {}
    /\ pc = "idle"
    /\ kind \in {"port", "host"}
    /\ start_port = 0 /\ end_port = 0 /\ max_threads = 1
    /\ todo = <<>>
    /\ queue = <<>> /\ running = {} /\ finished = {} /\ yielded = {}
    /\ open_ports = <<>> /\ scan_results = {}
    /\ local_ip \in LocalIps
    /\ devices = <<>>
    /\ ret = Returns(<<>>)
    /\ faulted = FALSE
    /\ lookups = {}
    /\ dispatched = <<>>
    /\ cancelled = FALSE
    /\ lateStarts = {}
    /\ result = [returncode |-> 1, stdout |-> <<>>]
    /\ current_ip = <<>>
    /\ previous = <<>>
    /\ queried = 0 /\ service = None
    /\ nmap_installed = FALSE /\ stale = FALSE
    /\ scan_start_time = <<>> /\ scan_end_time = <<>>
    /\ MenuAtRest
    /\ MsfAtRest

Next ==
    \/ CallRange
    \/ CallCommon
    \/ SubmitPort
    \/ BeginCollect
    \/ WorkerStart
    \/ \E p \in ProbedPorts : PortTask(p)
    \/ CollectPort
    \/ ReturnPort
    \/ Interrupt
    \/ Unwind
    \/ CallNetwork
    \/ SubmitHost
    \/ \E ip \in running : HostTask(ip)
    \/ CollectHost
    \/ ReturnHost
    \/ scan_network_termux
    \/ BasicPing
    \/ BasicReturn

Spec == Init /\ [][Next]_vars

\* _scan_network_termux from the return of subprocess.run (line 275) on, for
\* every output nmap can have produced.  Under Spec line 268 raises before
\* nmap is run; here the parse loop is examined by itself.
InitNmap ==
    /\ openSet = {} /\ alive = {}
    /\ pc = "parse"
    /\ kind = "host"
    /\ start_port = 0 /\ end_port = 0 /\ max_threads = 1
    /\ queue = <<>> /\ running = {} /\ finished = {} /\ yielded = {}
    /\ open_ports = <<>> /\ scan_results = {}
    /\ local_ip \in LocalIps
    /\ devices = <<>>
    /\ ret = Returns(<<>>)
    /\ faulted = FALSE
    /\ lookups = {}
    /\ dispatched = <<>>
    /\ cancelled = FALSE
    /\ lateStarts = {}
    /\ \/ result = [returncode |-> 1, stdout |-> <<>>]
       \/ \E listed \in NmapRuns :
            result = [returncode |-> 0,
                      stdout |-> stdout_lines(rsplit_head(local_ip), listed)]
    /\ todo = IF result.returncode = 0 THEN result.stdout ELSE <<>>
    /\ current_ip = <<>>
    /\ previous = <<>>
    /\ queried = 0 /\ service = None
    /\ nmap_installed = FALSE /\ stale = FALSE
    /\ scan_start_time = <<>> /\ scan_end_time = <<>>
    /\ MenuAtRest
    /\ MsfAtRest

NextNmap ==
    \/ NmapLine
    \/ NmapReturn

SpecNmap == InitNmap /\ [][NextNmap]_vars

\* the candidate lists of a NetworkScanner, for every local address of
\* Addresses (the sweeps of Spec probe the hosts of ProbedHosts out of them)
InitCandidates ==
    /\ openSet = {} /\ alive = {}
    /\ pc = "idle"
    /\ kind = "host"
    /\ start_port = 0 /\ end_port = 0 /\ max_threads = 1
    /\ todo = <<>>
    /\ queue = <<>> /\ running = {} /\ finished = {} /\ yielded = {}
    /\ open_ports = <<>> /\ scan_results = {}
    /\ local_ip \in Addresses
    /\ devices = <<>>
    /\ ret = Returns(<<>>)
    /\ faulted = FALSE
    /\ lookups = {}
    /\ dispatched = <<>>
    /\ cancelled = FALSE
    /\ lateStarts = {}
    /\ result = [returncode |-> 1, stdout |-> <<>>]
    /\ current_ip = <<>>
    /\ previous = <<>>
    /\ queried = 0 /\ service = None
    /\ nmap_installed = FALSE /\ stale = FALSE
    /\ scan_start_time = <<>> /\ scan_end_time = <<>>
    /\ MenuAtRest
    /\ MsfAtRest

NextCandidates ==
    \/ Enumerate
    \/ EnumerateBasic

SpecCandidates == InitCandidates /\ [][NextCandidates]_vars

\* get_service_name on a PortScanner, for the ports of ServiceInputs
InitService ==
    /\ openSet = {} /\ alive = {}
    /\ pc = "idle"
    /\ kind = "port"
    /\ start_port = 0 /\ end_port = 0 /\ max_threads = 1
    /\ todo = <<>>
    /\ queue = <<>> /\ running = {} /\ finished = {} /\ yielded = {}
    /\ open_ports = <<>> /\ scan_results = {}
    /\ local_ip \in LocalIps
    /\ devices = <<>>
    /\ ret = Returns(<<>>)
    /\ faulted = FALSE
    /\ lookups = {}
    /\ dispatched = <<>>
    /\ cancelled = FALSE
    /\ lateStarts = {}
    /\ result = [returncode |-> 1, stdout |-> <<>>]
    /\ current_ip = <<>>
    /\ previous = <<>>
    /\ queried = 0 /\ service = None
    /\ nmap_installed = FALSE /\ stale = FALSE
    /\ scan_start_time = <<>> /\ scan_end_time = <<>>
    /\ MenuAtRest
    /\ MsfAtRest

NextService == GetServiceName

SpecService == InitService /\ [][NextService]_vars

\* the sweeps of Spec with a worker pool that can refuse a task
NextDispatch ==
    \/ Next
    \/ SubmitFails

SpecDispatch == Init /\ [][NextDispatch]_vars

\* the parse loop of _scan_network_termux on outputs of two report entries
\* in any order, the two possibly about one address
InitNmapRepeat ==
    /\ openSet = {} /\ alive = {}
    /\ pc = "parse"
    /\ kind = "host"
    /\ start_port = 0 /\ end_port = 0 /\ max_threads = 1
    /\ queue = <<>> /\ running = {} /\ finished = {} /\ yielded = {}
    /\ open_ports = <<>> /\ scan_results = {}
    /\ local_ip \in LocalIps
    /\ devices = <<>>
    /\ ret = Returns(<<>>)
    /\ faulted = FALSE
    /\ lookups = {}
    /\ dispatched = <<>>
    /\ cancelled = FALSE
    /\ lateStarts = {}
    /\ \E entries \in RepeatedRuns :
         result = [returncode |-> 0,
                   stdout |-> <<Line("Starting Nmap", <<>>)>>
                              \o ReportsOf(rsplit_head(local_ip), entries)
                              \o <<Line("Nmap done", <<>>)>>]
    /\ todo = result.stdout
    /\ current_ip = <<>>
    /\ previous = <<>>
    /\ queried = 0 /\ service = None
    /\ nmap_installed = FALSE /\ stale = FALSE
    /\ scan_start_time = <<>> /\ scan_end_time = <<>>
    /\ MenuAtRest
    /\ MsfAtRest

SpecNmapRepeat == InitNmapRepeat /\ [][NextNmap]_vars

\* the steps a sweep takes by itself once it is called: the calling thread
\* and the worker threads run, and every probe and lookup call returns
Progress ==
    \/ SubmitPort \/ SubmitHost \/ BeginCollect
    \/ WorkerStart
    \/ \E p \in ProbedPorts : PortTask(p)
    \/ \E ip \in running : HostTask(ip)
    \/ CollectPort \/ CollectHost
    \/ ReturnPort \/ ReturnHost
    \/ Unwind
    \/ scan_network_termux \/ BasicPing \/ BasicReturn

\* Spec with threads that are scheduled and probe calls that return
\* the sweep of a scanner that is at rest after its construction.  Each
\* sweep builds its own executor, and its dispatch, collection and shutdown
\* read nothing a sweep before has left, so one sweep is followed per scanner.
FirstCall ==
    /\ pc = "idle"
    /\ (CallRange \/ CallCommon \/ CallNetwork)

NextLive == FirstCall \/ Progress \/ Interrupt

\* the threads of a sweep are scheduled: a step of the sweep that stays
\* possible is taken
SpecLive == Init /\ [][NextLive]_vars /\ WF_vars(Progress)

\* the toolkit shows its menu; the scanners are at rest
InitMenu ==
    /\ openSet = {} /\ alive = {}
    /\ pc = "menu"
    /\ kind = "port"
    /\ start_port = 0 /\ end_port = 0 /\ max_threads = 1
    /\ todo = <<>>
    /\ queue = <<>> /\ running = {} /\ finished = {} /\ yielded = {}
    /\ open_ports = <<>> /\ scan_results = {}
    /\ local_ip \in LocalIps
    /\ devices = <<>>
    /\ ret = Returns(<<>>)
    /\ faulted = FALSE
    /\ lookups = {}
    /\ dispatched = <<>>
    /\ cancelled = FALSE
    /\ lateStarts = {}
    /\ result = [returncode |-> 1, stdout |-> <<>>]
    /\ current_ip = <<>>
    /\ previous = <<>>
    /\ queried = 0 /\ service = None
    /\ nmap_installed = FALSE /\ stale = FALSE
    /\ scan_start_time = <<>> /\ scan_end_time = <<>>
    /\ MenuAtRest
    /\ MsfAtRest

\* the loop of NetworkSecurityToolkit.run: one option after the other
NextMenu ==
    \/ MenuScanNetwork
    \/ MenuSelectTarget
    \/ MenuScanPorts
    \/ MenuRunExploits
    \/ MenuRunSingleExploit
    \/ MenuRescanNetwork

SpecMenu == InitMenu /\ [][NextMenu]_vars

\* run_exploit_script is called: the script path, the files that exist, the
\* state of the interface, the platform and the operator's answer
InitExploit ==
    /\ openSet = {} /\ alive = {}
    /\ pc = "prompt"
    /\ kind = "port"
    /\ start_port = 0 /\ end_port = 0 /\ max_threads = 1
    /\ todo = <<>>
    /\ queue = <<>> /\ running = {} /\ finished = {} /\ yielded = {}
    /\ open_ports = <<>> /\ scan_results = {}
    /\ local_ip = dotted(<<192, 168, 1, 1>>)
    /\ devices = <<>>
    /\ ret = Returns(<<>>)
    /\ faulted = FALSE
    /\ lookups = {}
    /\ dispatched = <<>>
    /\ cancelled = FALSE
    /\ lateStarts = {}
    /\ result = [returncode |-> 1, stdout |-> <<>>]
    /\ current_ip = <<>>
    /\ previous = <<>>
    /\ queried = 0 /\ service = None
    /\ nmap_installed = FALSE /\ stale = FALSE
    /\ scan_start_time = <<>> /\ scan_end_time = <<>>
    /\ MenuAtRest
    /\ script_path \in ScriptPaths
    /\ existing \in SUBSET Files
    /\ answer \in Answers
    /\ is_connected \in BOOLEAN
    /\ msf_path \in MsfPaths
    /\ platform_system \in {"Linux", "Windows"}
    /\ launched = FALSE
    /\ success = <<>>

NextExploit == run_exploit_script

SpecExploit == InitExploit /\ [][NextExploit]_vars

(* ------------------------------------------------------------ properties *)

PortSweepReturned == kind = "port" /\ pc = "returned"
HostSweepReturned == kind = "host" /\ pc = "returned"

\* the valid port ranges, as the specification words them
InPortSpace(low, high) == 1 <= low /\ low <= high /\ high <= 65535

\* C1: a port sweep over a valid range returns a strictly ascending list
\* (hence without duplicates) of ports of [low, high], whatever order the
\* probe tasks complete in; over (p, p) it returns [] or [p].
C1_AscendingSubset ==
    PortSweepReturned =>
        /\ ret.exc = None
        /\ StrictlyAscending(ret.value)
        /\ \A i \in DOMAIN ret.value :
               start_port <= ret.value[i] /\ ret.value[i] <= end_port
        /\ start_port = end_port => ret.value \in {<<>>, <<start_port>>}

\* two open ports were returned by a sweep that ran its tasks concurrently
C1_Witness ==
    PortSweepReturned /\ Len(ret.value) >= 2 /\ max_threads >= 2

\* C2: scan_port_range raises the invalid-range error exactly when the
\* bounds are not 1 <= low <= high <= 65535, and when it raises no probe
\* task has been submitted to the pool.
C2_InvalidRangeRaises ==
    (kind = "port" /\ pc # "idle") =>
        /\ (pc = "raised" /\ ret.exc = "ValueError")
               <=> ~InPortSpace(start_port, end_port)
        /\ pc = "raised" =>
               dispatched = <<>> /\ queue = <<>> /\ running = {} /\ finished = {}

\* a reversed range inside the port space was rejected
C2_Witness ==
    /\ kind = "port" /\ pc = "raised" /\ ret.exc = "ValueError"
    /\ start_port > end_port /\ start_port <= MaxPort /\ end_port >= MinPort
    /\ dispatched = <<>>

\* C3: when every connection attempt gives the port's fixed answer, the
\* sweep returns exactly the open ports of [low, high]: none missing, no
\* closed port present.
C3_ExactlyOpenPorts ==
    (PortSweepReturned /\ ~faulted) =>
        Range(ret.value) = {p \in openSet : start_port <= p /\ p <= end_port}

\* 22 closed, 80 open, range 20..85 gave [80]
C3_Witness ==
    /\ PortSweepReturned /\ ~faulted
    /\ start_port = 20 /\ end_port = 85
    /\ openSet = {80}
    /\ ret.value = <<80>>

\* C4: in every state of a host sweep or a port sweep, the number of probe
\* calls started and not yet returned is at most max_threads.
C4_BoundedInFlight == Cardinality(running) <= max_threads

\* the pool is full while more tasks wait in the queue
C4_Witness ==
    /\ Cardinality(running) = max_threads
    /\ queue # <<>>
    /\ pc = "collect"

\* C5: scan_network returns the devices strictly ascending by the 32-bit
\* value of their addresses, for every completion order of the tasks.
C5_AscendingAddresses ==
    HostSweepReturned =>
        \A i \in 1..(Len(ret.value) - 1) :
            NumericLess(ret.value[i].ip, ret.value[i + 1].ip)

\* the thread-pool sweep returned all three modelled hosts
C5_Witness ==
    /\ HostSweepReturned
    /\ dispatched # <<>>
    /\ max_threads >= 2
    /\ Len(ret.value) = Cardinality(ProbedHosts)

\* C6: scan_common_ports returns only members of the twenty-port common
\* set.
C6_OnlyCommonPorts ==
    (/\ PortSweepReturned
     /\ start_port = SeqMin(common_ports)
     /\ end_port = SeqMax(common_ports))
        => Range(ret.value) \subseteq Range(common_ports)

\* the result a sweep has made visible so far
Visible ==
    IF kind = "port" THEN Range(open_ports)
    ELSE {devices[i].ip : i \in DOMAIN devices}

\* C7: once the interrupt is observed no further probe task starts, and the
\* visible result is a subset of the full result with no entry for a
\* candidate whose task had not been started.
C7_NoStartAfterCancel ==
    cancelled =>
        /\ lateStarts = {}
        /\ Visible \subseteq yielded \cup Range(dispatched)
        /\ kind = "port" => Visible \subseteq openSet

\* C8: a host sweep never raises to its caller, whatever the probes and the
\* lookups do, and with no responsive host it returns [].
C8_HostSweepNeverRaises ==
    (kind = "host" /\ ~cancelled) =>
        /\ pc \notin {"raised", "unwind"}
        /\ ret.exc = None
        /\ (pc = "returned" /\ alive = {}) => ret.value = <<>>

\* a sweep on the Termux path returned although a ping and both lookups of
\* an answering host failed
C8_Witness ==
    /\ HostSweepReturned
    /\ dispatched = <<>>
    /\ Len(ret.value) < Cardinality(alive)
    /\ \E l \in lookups : ~l.mac_ok /\ ~l.name_ok

\* C9: no probe raises to the coordinator (every future holds a value), and
\* scan_port reports a port open only if a connection attempt returned
\* success, which only an open port gives.
C9_ProbesNeverRaise ==
    /\ \A f \in finished :
           /\ ~f.exc
           /\ kind = "port" =>
                  /\ f.is_open <=> f.connected
                  /\ f.is_open => f.task \in openSet
    /\ ret.exc # Exc

\* both connection attempts to an open port failed and the probe said closed
C9_Witness ==
    \E f \in finished :
        /\ kind = "port"
        /\ f.task \in openSet
        /\ ~f.is_open /\ f.attempts = 2 /\ ~f.exc

\* the hosts the nmap run reported as up, and those it gave a MAC line for
Listed ==
    {result.stdout[i].ip : i \in {j \in DOMAIN result.stdout :
        result.stdout[j].text \in {"Nmap scan report for IP",
                                   "Nmap scan report for NAME (IP)"}}}
WithMacLine ==
    {result.stdout[i].ip : i \in {j \in DOMAIN result.stdout :
        result.stdout[j].text = "MAC Address: MAC"}}

C11_RepeatedSweepEqual ==
    (PortSweepReturned /\ ~faulted /\ previous # <<>>) =>
        ret.value = previous[1]

\* both sweeps of one range found the same two open ports
C11_Witness ==
    /\ PortSweepReturned /\ ~faulted
    /\ previous # <<>>
    /\ Len(previous[1]) >= 2
    /\ ret.value = previous[1]

\* C12: for a local address a.b.c.d the candidate list is a.b.c.1, a.b.c.2,
\* ..., a.b.c.254: 254 addresses, the i-th with host octet i (so ascending,
\* each once, without a.b.c.0 and a.b.c.255), the same on the concurrent and
\* on the sequential path.
C12_CandidateAddresses ==
    pc \in {"enumerated", "basic_enumerated"} =>
        LET a == inet_aton(local_ip)
        IN /\ Len(todo) = 254
           /\ \A i \in 1..254 :
                /\ i \in DOMAIN todo
                /\ inet_aton(todo[i]) = <<a[1], a[2], a[3], i>>
                /\ todo[i] = dotted(<<a[1], a[2], a[3], i>>)

\* the list of 10.0.255.57 on the sequential path ends with 10.0.255.254
C12_Witness ==
    /\ pc = "basic_enumerated"
    /\ inet_aton(local_ip) = <<10, 0, 255, 57>>
    /\ inet_aton(todo[Len(todo)]) = <<10, 0, 255, 254>>

\* C13: get_service_name returns the table's label for a port of the table
\* and "Unknown" for any other port; the ports with a label other than
\* "Unknown" are exactly the twenty ports of the common-port list.
C13_ServiceLabels ==
    pc = "named" =>
        /\ queried \in DOMAIN service_map => service = service_map[queried]
        /\ queried \notin DOMAIN service_map => service = Unknown
        /\ service # Unknown <=> queried \in Range(common_ports)

\* the last common port has its label
C13_Witness ==
    pc = "named" /\ queried = SeqMax(common_ports) /\ service = "HTTPS-Alt"

\* C14: when a sweep that dispatched tasks returns, no task is waiting in
\* the pool's queue, none is running, no finished future is left
\* uncollected, and the result of every task has been recorded: a port
\* sweep has an entry of scan_results for each dispatched port, a host
\* sweep has a device for each host that answered.
C14_ReturnsAfterDrain ==
    (pc = "returned" /\ dispatched # <<>>) =>
        /\ queue = <<>> /\ running = {} /\ finished = {}
        /\ kind = "port" =>
               {r[1] : r \in scan_results} = Range(dispatched)
        /\ kind = "host" =>
               {l.ip : l \in lookups} = {devices[i].ip : i \in DOMAIN devices}

\* a host sweep with two workers returned after all three tasks
C14_Witness ==
    /\ HostSweepReturned
    /\ Len(dispatched) = Cardinality(ProbedHosts)
    /\ max_threads >= 2
    /\ Len(devices) >= 2
    /\ queue = <<>> /\ running = {}

\* every port of the range is among the modelled ports
WholeRangeProbed ==
    /\ end_port - start_port <= MaxLow
    /\ \A p \in start_port..end_port : p \in ProbedPorts

\* C15: once a port sweep has submitted its tasks, each port of [low, high]
\* has been submitted exactly once and no port outside [low, high] has, so
\* the sweep runs high - low + 1 tasks (ports are the modelled ports; the
\* count is checked for the ranges that lie within them).
C15_OneTaskPerPort ==
    (kind = "port" /\ pc \in {"collect", "returned"}) =>
        /\ \A i \in DOMAIN dispatched, j \in DOMAIN dispatched :
               dispatched[i] = dispatched[j] => i = j
        /\ Range(dispatched) =
               {p \in ProbedPorts : start_port <= p /\ p <= end_port}
        /\ WholeRangeProbed => Len(dispatched) = end_port - start_port + 1

\* the sweep of 1..MaxLow submitted MaxLow tasks
C15_Witness ==
    /\ kind = "port" /\ pc = "collect"
    /\ start_port = MinPort /\ end_port = MaxLow
    /\ Len(dispatched) = MaxLow

SinkConsistent ==
    /\ (kind = "port" /\ pc = "collect") =>
           /\ {r[1] : r \in scan_results} = yielded
           /\ Cardinality(scan_results) = Cardinality(yielded)
           /\ Range(open_ports) = {r[1] : r \in {q \in scan_results : q[2]}}
           /\ Len(open_ports) = Cardinality(Range(open_ports))
    /\ (kind = "host" /\ pc = "collect") =>
           /\ {devices[i].ip : i \in DOMAIN devices}
                  = {l.ip : l \in {m \in lookups : m.ip \in yielded}}
           /\ \A i \in DOMAIN devices, j \in DOMAIN devices :
                  devices[i].ip = devices[j].ip => i = j

\* a step of a worker thread (a task starts or ends) writes no result sink
WorkersLeaveSinks ==
    running' # running => UNCHANGED <<open_ports, scan_results, devices>>

\* C17: the result sinks are written by the calling thread only, never by a
\* worker, and under every interleaving of task completions each collected
\* result is recorded exactly once, none lost or overwritten.
C17_SingleWriter == []SinkConsistent /\ [][WorkersLeaveSinks]_vars

\* two results are recorded while a worker is still running a task
C17_Witness ==
    /\ kind = "port" /\ pc = "collect"
    /\ Len(open_ports) >= 2
    /\ running # {}

\* C18: a failure to dispatch the task of one candidate does not end the
\* sweep: the sweep goes on and returns normally, it never raises the
\* dispatch error to its caller.
C18_DispatchFailureTolerated ==
    pc \in {"unwind", "raised"} => ret.exc # "RuntimeError"

WithDevice ==
    {devices[i].ip : i \in DOMAIN devices}
        \cup {f.task : f \in {g \in finished : g.device # <<>>}}

\* C20: the hardware-address and hostname lookups of a sweep were run only
\* for addresses whose ping was answered in this sweep: each such address
\* is a candidate whose probe has finished with a positive result (a host
\* that is up, with a device record), never a candidate still waiting or
\* one whose probe was negative.
C20_LookupsAfterPositivePing ==
    (kind = "host" /\ ~cancelled) =>
        \A l \in lookups :
            /\ HostOf(l.ip) \in alive
            /\ l.ip \notin running \cup Range(queue) \cup Range(todo)
            /\ l.ip \in WithDevice

\* one host was looked up, another that is up lost its ping and was not
C20_Witness ==
    /\ kind = "host" /\ pc = "collect"
    /\ \E l \in lookups : l.mac_ok /\ l.name_ok
    /\ \E ip \in yielded :
         HostOf(ip) \in alive /\ ip \notin {l.ip : l \in lookups}

\* C21: when the threads are scheduled and every probe and lookup call
\* returns, a sweep that was called with valid input leads to its return
\* (or, when the operator interrupts it, to the interrupt leaving it): the
\* submission, the collection and the pool's shutdown never block for good.
C21_SweepCompletes ==
    (pc \in {"submit", "collect", "termux", "basic", "unwind"})
        ~> (pc \in {"returned", "interrupted"})

\* a sweep of three candidates through a pool of one worker returned
C21_Witness ==
    /\ pc = "returned"
    /\ max_threads = 1
    /\ Len(dispatched) >= 3

\* C22: on Termux the fallback to the sequential ping scan is entered only
\* when nmap is not installed (or its run raised an error; the run is never
\* reached): with nmap installed the devices come from nmap.
C22_NmapWhenInstalled == pc = "basic" => ~nmap_installed

\* C23: the open ports run_exploits hands to search_exploits were found by
\* a port scan of the target that is selected at that moment.
C23_PortsOfSelectedTarget ==
    searched # <<>> => searched[1].scanned_ip = searched[1].target_ip

\* C24: the selected target is unset or one of the devices of the current
\* list.
C24_SelectedIsListed ==
    selected_target # <<>> => selected_target[1] \in Range(toolkit_devices)

\* C25: a port scan or an exploit run goes past its guard only with a
\* target selected, and a target is selected only after some network scan
\* of the session returned a non-empty list.
C25_GuardedOperations ==
    /\ (/\ option.name \in {"scan_ports", "run_exploits", "run_single_exploit"}
        /\ option.passed) => selected_target # <<>>
    /\ selected_target # <<>> => found

\* an exploit search ran for a selected target whose ports had been scanned
C25_Witness ==
    /\ option = [name |-> "run_exploits", passed |-> TRUE]
    /\ searched # <<>>
    /\ port_scanner # <<>>
    /\ toolkit_devices = <<>>

\* C26: after a port sweep over [low, high] has returned, scan_results has
\* one entry for each port of the range and for no other port, open_ports
\* holds exactly the ports whose entry is true, and the summary counts
\* high - low + 1 scanned ports (ports are the modelled ports; the count is
\* checked for the ranges that lie within them).
C26_ResultsCoverRange ==
    PortSweepReturned =>
        /\ {r[1] : r \in scan_results} = Targeted(start_port, end_port)
        /\ \A r \in scan_results, q \in scan_results : r[1] = q[1] => r = q
        /\ Range(get_open_ports) = {r[1] : r \in {q \in scan_results : q[2]}}
        /\ WholeRangeProbed =>
               get_scan_summary.total_ports_scanned = end_port - start_port + 1

\* a sweep over two or more modelled ports found one open and one closed
C26_Witness ==
    /\ PortSweepReturned /\ WholeRangeProbed
    /\ end_port > start_port
    /\ \E r \in scan_results, q \in scan_results : r[2] /\ ~q[2]

\* C27: a call of scan_port_range that is rejected with ValueError changes
\* neither open_ports, scan_results, scan_start_time nor scan_end_time, so
\* get_open_ports and get_scan_summary answer as they did before the call.
C27_RejectionKeepsState ==
    [][(kind = "port" /\ pc' = "raised" /\ ret'.exc = "ValueError") =>
           UNCHANGED <<open_ports, scan_results, scan_start_time, scan_end_time,
                       get_open_ports, get_scan_summary>>]_vars

\* a call was rejected on a scanner whose sweep before found an open port
C27_Witness ==
    /\ kind = "port" /\ pc = "raised" /\ ret.exc = "ValueError"
    /\ open_ports # <<>> /\ scan_results # {}
    /\ scan_start_time # <<>> /\ scan_end_time # <<>>

\* C28: the list a call of scan_network returns holds only devices whose
\* ping was answered during that call, each once, on the thread-pool path
\* and on the Termux path: nothing recorded before the call is carried over.
C28_OnlyDevicesOfThisCall ==
    HostSweepReturned =>
        /\ \A i \in DOMAIN ret.value :
               /\ ret.value[i].ip \in {l.ip : l \in lookups}
               /\ HostOf(ret.value[i].ip) \in alive
        /\ \A i \in DOMAIN ret.value, j \in DOMAIN ret.value :
               ret.value[i].ip = ret.value[j].ip => i = j

\* the Termux path returned devices, and a device of the sweep before was
\* silent during the call
C28_Witness ==
    /\ HostSweepReturned
    /\ stale
    /\ dispatched = <<>>
    /\ ret.value # <<>>

\* the device list that fits the answers of one sweep: one device for each
\* address whose ping was answered, with the placeholder for a lookup that
\* found nothing, by ascending host
ListOfAnswers(answers) ==
    LET hosts == Ascending({HostOf(l.ip) : l \in answers})
    IN [k \in DOMAIN hosts |->
           LET l == CHOOSE m \in answers : HostOf(m.ip) = hosts[k]
           IN Device(l.ip,
                     IF l.mac_ok THEN MacOf ELSE Unknown,
                     IF l.name_ok THEN NameOf ELSE Unknown)]

\* C29: the sequential fallback sweep and the thread-pool sweep return the
\* same list for the same local address and the same answers of the pings
\* and lookups: on both paths the list is the one that fits the answers.
C29_SameListOnBothPaths ==
    HostSweepReturned => ret.value = ListOfAnswers(lookups)

\* the fallback sweep returned two devices, one with no MAC address found
C29_Witness ==
    /\ HostSweepReturned
    /\ dispatched = <<>>
    /\ Len(ret.value) >= 2
    /\ \E i \in DOMAIN ret.value : ret.value[i].mac = Unknown
    /\ \E i \in DOMAIN ret.value : ret.value[i].mac = MacOf

\* the script file exists under the path given or under its normal form
ScriptExists ==
    normpath(script_path) \in existing \/ script_path \in existing

\* the framework was located: is_connected with a path that exists
FrameworkLocated ==
    is_connected /\ msf_path # <<>> /\ msf_path \in existing

\* C30 as stated: the framework process is started only if the script file
\* exists, the operator typed exactly yes and the framework was located;
\* otherwise the call returns False and starts no process.
C30_LaunchOnlyOnExactYes ==
    pc = "done" =>
        /\ launched =>
               ScriptExists /\ answer = <<"y", "e", "s">> /\ FrameworkLocated
        /\ ~(ScriptExists /\ answer = <<"y", "e", "s">> /\ FrameworkLocated) =>
               ~launched /\ success = <<FALSE>>

\* C30 as amended: the framework process is started only if the script
\* file exists, the answer is yes once its surrounding blanks are removed
\* and its letters lower-cased, and the framework was located; otherwise
\* the call returns False and starts no process.
C30_LaunchOnlyOnYes ==
    pc = "done" =>
        LET said_yes == lower(strip(answer)) = <<"y", "e", "s">>
        IN /\ launched => ScriptExists /\ said_yes /\ FrameworkLocated
           /\ ~(ScriptExists /\ said_yes /\ FrameworkLocated) =>
                  ~launched /\ success = <<FALSE>>

\* the framework ran the script after the operator typed YES
C30_Witness ==
    /\ pc = "done" /\ launched /\ success = <<TRUE>>
    /\ answer = <<"Y", "E", "S">>
    /\ script_path # normpath(script_path)
    /\ normpath(script_path) \notin existing

====
